---- MODULE Spec2Model ----
(***************************************************************************)
(* Model of src/file.py: the FivetranAPI client and its __call__ run.      *)
(* One behaviour is one construction followed by at most one run.  The     *)
(* control plane (responses to GET/PATCH) and the secret provider are the  *)
(* environment: every response is an input drawn from a small set.         *)
(***************************************************************************)
EXTENDS Integers, Sequences, FiniteSets, TLC

VARIABLES
  pc,            \* position of the program (see PcValues)
  self,          \* the object's fields: URL, API_KEY, API_SECRET, CONNECTOR_NAME
  auth_header,   \* local of __call__ (line 46)
  exc,           \* the exception that ended construction or the run: its
                 \* type and the method that raised it
  secretCalls,   \* number of dbutils.secrets.get calls made
  sent,          \* every HTTP request issued so far, in order
  inflight,      \* requests issued and not yet answered
  log,           \* events of the run, [ev, t], in the order they happen
  resps,         \* the response to each status read, in order
  reads,         \* result of each status read (a sync_state or "error")
  muts,          \* outcome of each mutation (status code, "neterr")
  out,           \* lines printed
  clock,         \* seconds slept so far
  arg,           \* the CONNECTOR_NAME argument passed to __init__
  remotePaused   \* the connector's pause flag on the control plane

vars == <<pc, self, auth_header, exc, secretCalls, sent, inflight, log,
          resps, reads, muts, out, clock, arg, remotePaused>>

----------------------------------------------------------------------------
(* Bounds *)

\* most iterations of the polling loop that go on to another iteration
MaxPolls == 2

\* longest key and longest secret tried on get_auth_header
MaxSecretLen == 2

----------------------------------------------------------------------------
(* Program constants *)

URL == "https://api.fivetran.com/v1"

SettleDelay == 15

PollInterval == 30

\* the static logical-name -> connector-id mapping of __init__
ConnectorIds ==
  [ n \in {"sherwood_palsql", "fsq_labworks", "hubspot",
           "tulare_soiltestvtaglab", "netsuite_suiteanalytics"} |->
      CASE n = "sherwood_palsql"         -> "tidy_interval"
        [] n = "fsq_labworks"            -> "intensive_usefulness"
        [] n = "hubspot"                 -> "embarkation_cropped"
        [] n = "tulare_soiltestvtaglab"  -> "shucking_fresco"
        [] n = "netsuite_suiteanalytics" -> "decayed_neat" ]

----------------------------------------------------------------------------
(* Inputs *)

\* logical names a caller may pass to the constructor
Names == {"sherwood_palsql", "hubspot", "not_a_connector"}

\* values the secret provider may return (strings as sequences of characters)
SecretValues == { <<"a">>, <<"a", ":">> }

\* sync_state values of the control plane
Statuses == {"syncing", "paused", "rescheduled", "scheduled"}

\* final HTTP status codes of a response: 200, another 2xx, a 3xx that
\* requests hands back (300, or a redirect without Location), a 4xx, a 5xx
StatusCodes == {200, 201, 300, 404, 500}

\* a request that got no response (requests raises ConnectionError)
NetErr == [code |-> 0, body |-> "neterr"]

\* responses to GET /connections/{id}: the body is not JSON ("nojson"), is
\* JSON in which the value subscripted by "data", "status" or "sync_state"
\* is not an object, e.g. {"data": null} ("notobject"), is JSON objects
\* down to a missing key ("nofield"), or carries a sync_state
GetResponses ==
  [code : StatusCodes,
   body : {"nojson", "notobject", "nofield"} \cup Statuses] \cup {NetErr}

\* responses to PATCH /connectors/{id}: the body is JSON or not
PatchResponses == [code : StatusCodes, body : {"nojson", "json"}] \cup {NetErr}

----------------------------------------------------------------------------
(* get_auth_header: base64 of "<key>:<secret>" *)

Ord(c) ==
  CASE c = "a" -> 97
    [] c = "b" -> 98
    [] c = ":" -> 58

B64Chars ==
  << "A","B","C","D","E","F","G","H","I","J","K","L","M","N","O","P",
     "Q","R","S","T","U","V","W","X","Y","Z","a","b","c","d","e","f",
     "g","h","i","j","k","l","m","n","o","p","q","r","s","t","u","v",
     "w","x","y","z","0","1","2","3","4","5","6","7","8","9","+","/" >>

\* an encoder that drops the low bits of a single trailing byte
RECURSIVE b64encode_lossyTail(_)
b64encode_lossyTail(bytes) ==
  IF Len(bytes) = 0 THEN << >>
  ELSE IF Len(bytes) = 1 THEN
    LET n == bytes[1] * 65536
    IN << B64Chars[(n \div 262144) + 1], B64Chars[1], "=", "=" >>
  ELSE IF Len(bytes) = 2 THEN
    LET n == bytes[1] * 65536 + bytes[2] * 256
    IN << B64Chars[(n \div 262144) + 1], B64Chars[((n \div 4096) % 64) + 1],
          B64Chars[((n \div 64) % 64) + 1], "=" >>
  ELSE
    LET n == bytes[1] * 65536 + bytes[2] * 256 + bytes[3]
    IN << B64Chars[(n \div 262144) + 1], B64Chars[((n \div 4096) % 64) + 1],
          B64Chars[((n \div 64) % 64) + 1], B64Chars[(n % 64) + 1] >>
       \o b64encode_lossyTail(SubSeq(bytes, 4, Len(bytes)))

RECURSIVE b64encode(_)
b64encode(bytes) ==
  IF Len(bytes) = 0 THEN << >>
  ELSE IF Len(bytes) = 1 THEN
    LET n == bytes[1] * 65536
    IN << B64Chars[(n \div 262144) + 1], B64Chars[((n \div 4096) % 64) + 1],
          "=", "=" >>
  ELSE IF Len(bytes) = 2 THEN
    LET n == bytes[1] * 65536 + bytes[2] * 256
    IN << B64Chars[(n \div 262144) + 1], B64Chars[((n \div 4096) % 64) + 1],
          B64Chars[((n \div 64) % 64) + 1], "=" >>
  ELSE
    LET n == bytes[1] * 65536 + bytes[2] * 256 + bytes[3]
    IN << B64Chars[(n \div 262144) + 1], B64Chars[((n \div 4096) % 64) + 1],
          B64Chars[((n \div 64) % 64) + 1], B64Chars[(n % 64) + 1] >>
       \o b64encode(SubSeq(bytes, 4, Len(bytes)))

\* str.encode() of an ASCII string
encode(s) == [i \in 1..Len(s) |-> Ord(s[i])]

BasicToken(key, secret) == b64encode(encode(key \o <<":">> \o secret))

get_auth_header(obj) ==
  [Authorization |-> <<"Basic">> \o BasicToken(obj.API_KEY, obj.API_SECRET)]

\* requests.auth.HTTPBasicAuth(key, secret) sets the same Authorization header
HTTPBasicAuth(key, secret) ==
  [Authorization |-> <<"Basic">> \o BasicToken(key, secret)]

----------------------------------------------------------------------------
(* Requests and the evaluation of responses *)

GetRequest(obj, headers) ==
  [method |-> "GET", base |-> obj.URL, path |-> "connections",
   id |-> obj.CONNECTOR_NAME, auth |-> headers.Authorization,
   payload |-> "none"]

\* a mutation whose payload ignores status_paused
PatchRequest_ignoreArg(obj, status_paused) ==
  [method |-> "PATCH", base |-> obj.URL, path |-> "connectors",
   id |-> obj.CONNECTOR_NAME,
   auth |-> HTTPBasicAuth(obj.API_KEY, obj.API_SECRET).Authorization,
   payload |-> "paused:false"]

PatchRequest(obj, status_paused) ==
  [method |-> "PATCH", base |-> obj.URL, path |-> "connectors",
   id |-> obj.CONNECTOR_NAME,
   auth |-> HTTPBasicAuth(obj.API_KEY, obj.API_SECRET).Authorization,
   payload |-> IF status_paused THEN "paused:true" ELSE "paused:false"]

\* Response.raise_for_status(): raises for 4xx and 5xx
raise_for_status(r) == r.code >= 400 /\ r.code < 600

\* get_sync_status without the call of raise_for_status
GetRaises_noStatusCheck(r) ==
  IF r = NetErr THEN "ConnectionError"
  ELSE IF r.body = "nojson" THEN "JSONDecodeError"
  ELSE IF r.body = "notobject" THEN "TypeError"
  ELSE IF r.body = "nofield" THEN "KeyError"
  ELSE "none"

\* get_sync_status reading the field with a default instead of a subscript
GetRaises_missingFieldOk(r) ==
  IF r = NetErr THEN "ConnectionError"
  ELSE IF raise_for_status(r) THEN "HTTPError"
  ELSE IF r.body = "nojson" THEN "JSONDecodeError"
  ELSE IF r.body = "notobject" THEN "TypeError"
  ELSE "none"

\* the exception get_sync_status raises on response r, or "none"
GetRaises(r) ==
  IF r = NetErr THEN "ConnectionError"
  ELSE IF raise_for_status(r) THEN "HTTPError"
  ELSE IF r.body = "nojson" THEN "JSONDecodeError"
  ELSE IF r.body = "notobject" THEN "TypeError"
  ELSE IF r.body = "nofield" THEN "KeyError"
  ELSE "none"

\* the exception set_connector_paused_status raises on response r, or "none"
PatchRaises(r) ==
  IF r = NetErr THEN "ConnectionError"
  ELSE IF r.code = 200 THEN "none"
  ELSE IF r.body = "nojson" THEN "JSONDecodeError"
  ELSE "none"

\* what set_connector_paused_status prints on response r
PatchPrints(obj, status_paused, r) ==
  IF r = NetErr THEN << >>
  ELSE IF r.code = 200
    THEN << <<"Connector was successfully", obj.CONNECTOR_NAME,
              IF status_paused THEN "PAUSED" ELSE "UNPAUSED">> >>
  ELSE IF r.body = "nojson" THEN << <<"Error updating the connector", r.code>> >>
  ELSE << <<"Error updating the connector", r.code>>, <<"json", r.body>> >>

\* the control plane's pause flag after answering a mutation with r: a 200
\* acknowledges that the mutation was applied, any other response that it was
\* not; without a response either may be the case
RemoteAfter(cur, status_paused, r) ==
  IF r = NetErr THEN {cur, status_paused}
  ELSE IF r.code = 200 THEN {status_paused}
  ELSE {cur}

Event(e) == [ev |-> e, t |-> clock]

NoExc == [type |-> "none", in |-> "none"]

Raised(type, method) == [type |-> type, in |-> method]

----------------------------------------------------------------------------
(* Initial state: nothing constructed *)

NoSelf == [URL |-> "unset", API_KEY |-> << >>, API_SECRET |-> << >>,
           CONNECTOR_NAME |-> "unset"]

Init ==
  /\ pc = "new"
  /\ self = NoSelf
  /\ auth_header = [Authorization |-> << >>]
  /\ exc = NoExc
  /\ secretCalls = 0
  /\ sent = << >>
  /\ inflight = << >>
  /\ log = << >>
  /\ resps = << >>
  /\ reads = << >>
  /\ muts = << >>
  /\ out = << >>
  /\ clock = 0
  /\ arg = "none"
  /\ remotePaused \in BOOLEAN

----------------------------------------------------------------------------
(* __init__ *)

\* a lookup that falls back to the name itself when it is not a key
Lookup_default(name) ==
  IF name \in DOMAIN ConnectorIds THEN ConnectorIds[name] ELSE name

\* the subscript of the mapping literal: the id, or "KeyError" when absent
Lookup(name) ==
  IF name \in DOMAIN ConnectorIds THEN ConnectorIds[name] ELSE "KeyError"

\* FivetranAPI(CONNECTOR_NAME=name): the two secrets are fetched first, then
\* the name is resolved
Construct(name, k, s) ==
  /\ pc = "new"
  /\ arg' = name
  /\ secretCalls' = secretCalls + 2
  /\ IF Lookup(name) # "KeyError"
       THEN /\ self' = [URL |-> URL, API_KEY |-> k, API_SECRET |-> s,
                        CONNECTOR_NAME |-> Lookup(name)]
            /\ pc' = "constructed"
            /\ exc' = exc
       ELSE /\ self' = [URL |-> URL, API_KEY |-> k, API_SECRET |-> s,
                        CONNECTOR_NAME |-> "unset"]
            /\ pc' = "ctor_failed"
            /\ exc' = Raised("KeyError", "__init__")
  /\ UNCHANGED <<auth_header, sent, inflight, log, resps, reads, muts, out,
                 clock, remotePaused>>

----------------------------------------------------------------------------
(* __call__ *)

\* a run that unpauses whenever the connector is not syncing
NeedsUnpause_notSyncing(status) == status # "syncing"

\* line 47: the condition under which the connector is unpaused
NeedsUnpause(status) == status = "paused"

\* a loop that also treats 'scheduled' as still in progress
PollEnds_scheduled(status) == status \notin {"syncing", "scheduled"}

\* a loop that is left after its first read whatever the status
PollEnds_always(status) == TRUE

\* line 56: the condition under which the polling loop is left
PollEnds(status) == status \notin {"syncing"}

\* number of polling-loop reads answered so far
PollsDone == Len(reads) - 1

MutResult(status_paused, r) == [paused |-> status_paused, code |-> r.code]

\* a status read that stores the resource url in self.URL instead of a local
Call_storesUrl ==
  /\ pc = "constructed"
  /\ auth_header' = get_auth_header(self)
  /\ sent' = Append(sent, GetRequest(self, auth_header'))
  /\ inflight' = Append(inflight, GetRequest(self, auth_header'))
  /\ log' = Append(log, Event("read"))
  /\ self' = [self EXCEPT !.URL = "https://api.fivetran.com/v1/connections"]
  /\ pc' = "start_read"
  /\ UNCHANGED <<exc, secretCalls, resps, reads, muts, out, clock, arg,
                 remotePaused>>

\* lines 46-47: build the header and issue the Start status read
Call ==
  /\ pc = "constructed"
  /\ auth_header' = get_auth_header(self)
  /\ sent' = Append(sent, GetRequest(self, auth_header'))
  /\ inflight' = Append(inflight, GetRequest(self, auth_header'))
  /\ log' = Append(log, Event("read"))
  /\ pc' = "start_read"
  /\ UNCHANGED <<self, exc, secretCalls, resps, reads, muts, out, clock, arg,
                 remotePaused>>

\* a run that sleeps 15 seconds only after an unpause: a Start status other
\* than 'paused' goes straight to the first read of the loop
RecvStartRead_noSettle(r) ==
  /\ pc = "start_read"
  /\ resps' = Append(resps, r)
  /\ IF GetRaises(r) # "none"
       THEN /\ exc' = Raised(GetRaises(r), "get_sync_status")
            /\ reads' = Append(reads, "error")
            /\ inflight' = Tail(inflight)
            /\ pc' = "aborted"
            /\ UNCHANGED <<sent, log, out>>
       ELSE /\ reads' = Append(reads, r.body)
            /\ exc' = exc
            /\ IF NeedsUnpause(r.body)
                 THEN /\ sent' = Append(sent, PatchRequest(self, FALSE))
                      /\ inflight' = Append(Tail(inflight),
                                            PatchRequest(self, FALSE))
                      /\ log' = Append(log, Event("unpause"))
                      /\ pc' = "unpause_wait"
                      /\ out' = out
                 ELSE /\ out' = out
                      /\ sent' = Append(sent, GetRequest(self, auth_header))
                      /\ inflight' = Append(Tail(inflight),
                                            GetRequest(self, auth_header))
                      /\ log' = Append(log, Event("poll"))
                      /\ pc' = "poll_wait"
  /\ UNCHANGED <<self, auth_header, secretCalls, muts, clock, arg,
                 remotePaused>>

\* lines 47-51: the Start read is answered; unpause if 'paused', else go on
\* to the 15 second sleep
RecvStartRead(r) ==
  /\ pc = "start_read"
  /\ resps' = Append(resps, r)
  /\ IF GetRaises(r) # "none"
       THEN /\ exc' = Raised(GetRaises(r), "get_sync_status")
            /\ reads' = Append(reads, "error")
            /\ inflight' = Tail(inflight)
            /\ pc' = "aborted"
            /\ UNCHANGED <<sent, log, out>>
       ELSE /\ reads' = Append(reads, r.body)
            /\ exc' = exc
            /\ IF NeedsUnpause(r.body)
                 THEN /\ sent' = Append(sent, PatchRequest(self, FALSE))
                      /\ inflight' = Append(Tail(inflight),
                                            PatchRequest(self, FALSE))
                      /\ log' = Append(log, Event("unpause"))
                      /\ pc' = "unpause_wait"
                      /\ out' = out
                 ELSE /\ out' = Append(out, <<"Waiting 15 seconds to start the monitoring!">>)
                      /\ inflight' = Tail(inflight)
                      /\ pc' = "settle"
                      /\ UNCHANGED <<sent, log>>
  /\ UNCHANGED <<self, auth_header, secretCalls, muts, clock, arg,
                 remotePaused>>

\* a run that starts polling as soon as the unpause is answered, without the
\* 15 second sleep
RecvUnpause_noSettle(r) ==
  /\ pc = "unpause_wait"
  /\ muts' = Append(muts, MutResult(FALSE, r))
  /\ remotePaused' \in RemoteAfter(remotePaused, FALSE, r)
  /\ IF PatchRaises(r) # "none"
       THEN /\ exc' = Raised(PatchRaises(r), "set_connector_paused_status")
            /\ out' = out \o PatchPrints(self, FALSE, r)
            /\ inflight' = Tail(inflight)
            /\ pc' = "aborted"
            /\ UNCHANGED <<sent, log>>
       ELSE /\ exc' = exc
            /\ out' = out \o PatchPrints(self, FALSE, r)
            /\ sent' = Append(sent, GetRequest(self, auth_header))
            /\ inflight' = Append(Tail(inflight),
                                  GetRequest(self, auth_header))
            /\ log' = Append(log, Event("poll"))
            /\ pc' = "poll_wait"
  /\ UNCHANGED <<self, auth_header, secretCalls, resps, reads, clock, arg>>

\* lines 48-51: the unpause mutation is answered
RecvUnpause(r) ==
  /\ pc = "unpause_wait"
  /\ inflight' = Tail(inflight)
  /\ muts' = Append(muts, MutResult(FALSE, r))
  /\ remotePaused' \in RemoteAfter(remotePaused, FALSE, r)
  /\ IF PatchRaises(r) # "none"
       THEN /\ exc' = Raised(PatchRaises(r), "set_connector_paused_status")
            /\ out' = out \o PatchPrints(self, FALSE, r)
            /\ pc' = "aborted"
       ELSE /\ exc' = exc
            /\ out' = (out \o PatchPrints(self, FALSE, r))
                        \o << <<"Waiting 15 seconds to start the monitoring!">> >>
            /\ pc' = "settle"
  /\ UNCHANGED <<self, auth_header, secretCalls, sent, log, resps, reads,
                 clock, arg>>

\* a run whose first read of the loop is issued without waiting
SettleElapsed_noWait ==
  /\ pc = "settle"
  /\ clock' = clock
  /\ log' = log \o << [ev |-> "settle", t |-> clock'],
                      [ev |-> "poll", t |-> clock'] >>
  /\ sent' = Append(sent, GetRequest(self, auth_header))
  /\ inflight' = Append(inflight, GetRequest(self, auth_header))
  /\ pc' = "poll_wait"
  /\ UNCHANGED <<self, auth_header, exc, secretCalls, resps, reads, muts,
                 out, arg, remotePaused>>

\* lines 51-54: time.sleep(15) returns and the loop issues its first read
SettleElapsed ==
  /\ pc = "settle"
  /\ clock' = clock + SettleDelay
  /\ log' = log \o << [ev |-> "settle", t |-> clock'],
                      [ev |-> "poll", t |-> clock'] >>
  /\ sent' = Append(sent, GetRequest(self, auth_header))
  /\ inflight' = Append(inflight, GetRequest(self, auth_header))
  /\ pc' = "poll_wait"
  /\ UNCHANGED <<self, auth_header, exc, secretCalls, resps, reads, muts,
                 out, arg, remotePaused>>

\* a polling loop whose status read is retried once when it fails
RecvPoll_retry(r) ==
  /\ pc = "poll_wait"
  /\ (GetRaises(r) = "none" /\ ~PollEnds(r.body)) => PollsDone < MaxPolls
  /\ resps' = Append(resps, r)
  /\ IF GetRaises(r) # "none"
       THEN /\ reads' = Append(reads, "error")
            /\ UNCHANGED <<log, out>>
            /\ IF reads # << >> /\ reads[Len(reads)] # "error"
                 THEN /\ sent' = Append(sent, GetRequest(self, auth_header))
                      /\ inflight' = Append(Tail(inflight),
                                            GetRequest(self, auth_header))
                      /\ exc' = exc
                      /\ pc' = "poll_wait"
                 ELSE /\ exc' = Raised(GetRaises(r), "get_sync_status")
                      /\ inflight' = Tail(inflight)
                      /\ sent' = sent
                      /\ pc' = "aborted"
       ELSE /\ reads' = Append(reads, r.body)
            /\ exc' = exc
            /\ IF PollEnds(r.body)
                 THEN /\ out' = out \o << <<"Sync Status", r.body>>,
                                          <<"Sync ended -> status", r.body>>,
                                          <<"Repausing Sync!">> >>
                      /\ sent' = Append(sent, PatchRequest(self, TRUE))
                      /\ inflight' = Append(Tail(inflight),
                                            PatchRequest(self, TRUE))
                      /\ log' = Append(log, Event("pause"))
                      /\ pc' = "pause_wait"
                 ELSE /\ out' = Append(out, <<"Sync Status", r.body>>)
                      /\ inflight' = Tail(inflight)
                      /\ pc' = "sleep"
                      /\ UNCHANGED <<sent, log>>
  /\ UNCHANGED <<self, auth_header, secretCalls, muts, clock, arg,
                 remotePaused>>

\* lines 54-62: a polling-loop read is answered
RecvPoll(r) ==
  /\ pc = "poll_wait"
  /\ (GetRaises(r) = "none" /\ ~PollEnds(r.body)) => PollsDone < MaxPolls
  /\ resps' = Append(resps, r)
  /\ IF GetRaises(r) # "none"
       THEN /\ exc' = Raised(GetRaises(r), "get_sync_status")
            /\ reads' = Append(reads, "error")
            /\ inflight' = Tail(inflight)
            /\ pc' = "aborted"
            /\ UNCHANGED <<sent, log, out>>
       ELSE /\ reads' = Append(reads, r.body)
            /\ exc' = exc
            /\ IF PollEnds(r.body)
                 THEN /\ out' = out \o << <<"Sync Status", r.body>>,
                                          <<"Sync ended -> status", r.body>>,
                                          <<"Repausing Sync!">> >>
                      /\ sent' = Append(sent, PatchRequest(self, TRUE))
                      /\ inflight' = Append(Tail(inflight),
                                            PatchRequest(self, TRUE))
                      /\ log' = Append(log, Event("pause"))
                      /\ pc' = "pause_wait"
                 ELSE /\ out' = Append(out, <<"Sync Status", r.body>>)
                      /\ inflight' = Tail(inflight)
                      /\ pc' = "sleep"
                      /\ UNCHANGED <<sent, log>>
  /\ UNCHANGED <<self, auth_header, secretCalls, muts, clock, arg,
                 remotePaused>>

\* a polling loop that re-reads at once, without the 30 second sleep
PollSleepElapsed_noSleep ==
  /\ pc = "sleep"
  /\ clock' = clock
  /\ log' = Append(log, Event("poll"))
  /\ sent' = Append(sent, GetRequest(self, auth_header))
  /\ inflight' = Append(inflight, GetRequest(self, auth_header))
  /\ pc' = "poll_wait"
  /\ UNCHANGED <<self, auth_header, exc, secretCalls, resps, reads, muts,
                 out, arg, remotePaused>>

\* lines 59, 54: time.sleep(30) returns and the loop issues its next read
PollSleepElapsed ==
  /\ pc = "sleep"
  /\ clock' = clock + PollInterval
  /\ log' = log \o << [ev |-> "sleep", t |-> clock'],
                      [ev |-> "poll", t |-> clock'] >>
  /\ sent' = Append(sent, GetRequest(self, auth_header))
  /\ inflight' = Append(inflight, GetRequest(self, auth_header))
  /\ pc' = "poll_wait"
  /\ UNCHANGED <<self, auth_header, exc, secretCalls, resps, reads, muts,
                 out, arg, remotePaused>>

\* a pause that is sent once more when it is not answered with 200
RecvPause_retry(r) ==
  /\ pc = "pause_wait"
  /\ muts' = Append(muts, MutResult(TRUE, r))
  /\ remotePaused' \in RemoteAfter(remotePaused, TRUE, r)
  /\ UNCHANGED log
  /\ IF PatchRaises(r) # "none"
       THEN /\ exc' = Raised(PatchRaises(r), "set_connector_paused_status")
            /\ out' = out \o PatchPrints(self, TRUE, r)
            /\ inflight' = Tail(inflight)
            /\ sent' = sent
            /\ pc' = "aborted"
       ELSE IF r.code # 200 /\ Len(muts') < 3
       THEN /\ exc' = exc
            /\ out' = out \o PatchPrints(self, TRUE, r)
            /\ sent' = Append(sent, PatchRequest(self, TRUE))
            /\ inflight' = Append(Tail(inflight), PatchRequest(self, TRUE))
            /\ pc' = "pause_wait"
       ELSE /\ exc' = exc
            /\ out' = (out \o PatchPrints(self, TRUE, r))
                        \o << <<"Start your pipeline!">> >>
            /\ inflight' = Tail(inflight)
            /\ sent' = sent
            /\ pc' = "done"
  /\ UNCHANGED <<self, auth_header, secretCalls, resps, reads, clock, arg>>

\* lines 62-64: the pause mutation is answered
RecvPause(r) ==
  /\ pc = "pause_wait"
  /\ inflight' = Tail(inflight)
  /\ muts' = Append(muts, MutResult(TRUE, r))
  /\ remotePaused' \in RemoteAfter(remotePaused, TRUE, r)
  /\ IF PatchRaises(r) # "none"
       THEN /\ exc' = Raised(PatchRaises(r), "set_connector_paused_status")
            /\ out' = out \o PatchPrints(self, TRUE, r)
            /\ pc' = "aborted"
       ELSE /\ exc' = exc
            /\ out' = (out \o PatchPrints(self, TRUE, r))
                        \o << <<"Start your pipeline!">> >>
            /\ pc' = "done"
  /\ UNCHANGED <<self, auth_header, secretCalls, sent, log, resps, reads,
                 clock, arg>>

Next ==
  \/ \E name \in Names, k \in SecretValues, s \in SecretValues :
       Construct(name, k, s)
  \/ Call
  \/ \E r \in GetResponses : RecvStartRead(r)
  \/ \E r \in PatchResponses : RecvUnpause(r)
  \/ SettleElapsed
  \/ \E r \in GetResponses : RecvPoll(r)
  \/ PollSleepElapsed
  \/ \E r \in PatchResponses : RecvPause(r)

Spec == Init /\ [][Next]_vars

----------------------------------------------------------------------------
(* get_auth_header on its own: a constructed client with any key and       *)
(* secret over a small alphabet, on which get_auth_header is called once   *)

AuthAlphabet == {"a", "b", ":"}

AuthStrings == UNION {[1..n -> AuthAlphabet] : n \in 0..MaxSecretLen}

AuthInit ==
  /\ pc = "auth_call"
  /\ \E k \in AuthStrings, s \in AuthStrings :
       self = [URL |-> URL, API_KEY |-> k, API_SECRET |-> s,
               CONNECTOR_NAME |-> ConnectorIds["hubspot"]]
  /\ auth_header = [Authorization |-> << >>]
  /\ exc = NoExc
  /\ secretCalls = 2
  /\ sent = << >>
  /\ inflight = << >>
  /\ log = << >>
  /\ resps = << >>
  /\ reads = << >>
  /\ muts = << >>
  /\ out = << >>
  /\ clock = 0
  /\ arg = "hubspot"
  /\ remotePaused \in BOOLEAN

\* lines 72-74: the call returns the header
GetAuthHeaderCall ==
  /\ pc = "auth_call"
  /\ auth_header' = get_auth_header(self)
  /\ pc' = "auth_returned"
  /\ UNCHANGED <<self, exc, secretCalls, sent, inflight, log, resps, reads,
                 muts, out, clock, arg, remotePaused>>

AuthNext == GetAuthHeaderCall

SpecAuth == AuthInit /\ [][AuthNext]_vars

----------------------------------------------------------------------------
(* Type invariant *)

PcValues == {"new", "ctor_failed", "constructed", "start_read",
             "unpause_wait", "settle", "poll_wait", "sleep", "pause_wait",
             "done", "aborted", "auth_call", "auth_returned"}

TypeOK ==
  /\ pc \in PcValues
  /\ secretCalls \in {0, 2}
  /\ remotePaused \in BOOLEAN
  /\ clock \in Nat
  /\ Len(resps) = Len(reads)
  /\ \A i \in 1..Len(reads) : reads[i] \in Statuses \cup {"error"}
  /\ \A i \in 1..Len(muts) : muts[i].code \in StatusCodes \cup {0}

----------------------------------------------------------------------------
(* Vocabulary of the properties *)

\* positions in the log of the events named e
Idx(e) == {i \in 1..Len(log) : log[i].ev = e}

\* the names of the events of the run, in order
EventNames == [i \in 1..Len(log) |-> log[i].ev]

\* positions in sent of the mutations with the given payload
SentIdx(payload) ==
  {i \in 1..Len(sent) : sent[i].method = "PATCH" /\ sent[i].payload = payload}

UnpausesSent == SentIdx("paused:false")

PausesSent == SentIdx("paused:true")

\* positions in sent of the status reads; the first is the Start read, the
\* others are the reads of the polling loop
ReadsSent == {i \in 1..Len(sent) : sent[i].method = "GET"}

PollsSent == {i \in ReadsSent : i > 1}

StartAnswered == Len(reads) >= 1

\* a status read failed, in the sense of the specification: no response, a
\* response that is not 2xx, or a body without data.status.sync_state
ReadFailed(r) ==
  \/ r = NetErr
  \/ r.code < 200 \/ r.code > 299
  \/ r.body \in {"nojson", "notobject", "nofield"}

\* a status read failed, by its response: no response, a 4xx or 5xx
\* response, or a body that is not JSON or has no data.status.sync_state
ReadError(r) ==
  \/ r = NetErr
  \/ r.code \in 400..599
  \/ r.body \in {"nojson", "notobject", "nofield"}

\* a mutation was answered with a response that is not 2xx
NonOk(m) == m.code # 0 /\ (m.code < 200 \/ m.code > 299)

----------------------------------------------------------------------------
(* C1: if the Start read returns 'paused', exactly one unpause mutation is *)
(* issued and it precedes every read of the polling loop; if the Start     *)
(* read returns anything else, no unpause mutation is issued in the run.   *)
C1_UnpauseIffStartPaused ==
  /\ (StartAnswered /\ reads[1] = "paused") =>
        /\ Cardinality(UnpausesSent) = 1
        /\ \A i \in UnpausesSent, j \in PollsSent : i < j
        /\ \A i \in Idx("unpause"), j \in Idx("poll") : i < j
  /\ ~(StartAnswered /\ reads[1] = "paused") => UnpausesSent = {}

C1_Witness ==
  /\ pc = "done"
  /\ reads[1] = "paused"
  /\ Cardinality(UnpausesSent) = 1
  /\ Cardinality(PollsSent) = 2

----------------------------------------------------------------------------
(* C2 (as stated): when the Start status is not 'paused' and the first     *)
(* read of the loop returns a terminal status, the events after the Start  *)
(* read are exactly [poll, pause], with no settle delay and no unpause.    *)
C2_NoSettleWhenNotPaused ==
  (/\ Len(reads) >= 2
   /\ reads[1] \notin {"paused", "error"}
   /\ reads[2] \notin {"syncing", "error"}) =>
     /\ Tail(EventNames) = <<"poll", "pause">>
     /\ Idx("settle") = {}
     /\ clock = 0
     /\ UnpausesSent = {}

(* C2 (amended): when the Start status is not 'paused' no unpause is       *)
(* issued, but the 15 second delay is still incurred before the first read *)
(* of the loop; when that read returns a terminal status the events of the *)
(* run are exactly [Start read, settle delay, poll, pause].                *)
C2_SettleThenPollWhenNotPaused ==
  (StartAnswered /\ reads[1] \notin {"paused", "error"}) =>
     /\ UnpausesSent = {}
     /\ PollsSent # {} =>
          /\ Len(log) >= 3
          /\ SubSeq(EventNames, 1, 3) = <<"read", "settle", "poll">>
          /\ log[3].t = SettleDelay
     /\ (Len(reads) >= 2 /\ reads[2] \notin {"syncing", "error"}) =>
          EventNames = <<"read", "settle", "poll", "pause">>

C2_Witness ==
  /\ pc = "done"
  /\ reads = <<"rescheduled", "rescheduled">>
  /\ EventNames = <<"read", "settle", "poll", "pause">>
  /\ clock = SettleDelay

----------------------------------------------------------------------------
(* C3: every run that has ended, at Done or by an exception, leaves the    *)
(* connector paused on the control plane, provided every mutation the run  *)
(* issued was acknowledged with 200 and the connector was found paused at  *)
(* Start or the run issued its pause.                                      *)
C3_EndsPaused ==
  (/\ pc \in {"done", "aborted"}
   /\ StartAnswered
   /\ \A i \in 1..Len(muts) : muts[i].code = 200
   /\ (reads[1] = "paused" \/ PausesSent # {})) => remotePaused

----------------------------------------------------------------------------
(* C4: the polling loop ends at the first read that is not 'syncing': a    *)
(* read that did not return 'syncing' is the last status read issued, and  *)
(* while every read of the loop returned 'syncing' the loop goes on and no *)
(* pause is issued.                                                        *)
C4_PollingEndsAtFirstNonSyncing ==
  /\ \A i \in 2..Len(reads) :
       reads[i] # "syncing" =>
         /\ i = Len(reads)
         /\ Cardinality(PollsSent) = i - 1
  /\ (Len(reads) >= 2 /\ \A i \in 2..Len(reads) : reads[i] = "syncing") =>
       /\ pc \in {"sleep", "poll_wait"}
       /\ PausesSent = {}
  /\ PausesSent # {} =>
       /\ Len(reads) >= 2
       /\ reads[Len(reads)] \in Statuses \ {"syncing"}

C4_Witness ==
  /\ pc = "done"
  /\ reads = <<"syncing", "syncing", "syncing", "scheduled">>
  /\ Cardinality(PollsSent) = 3

----------------------------------------------------------------------------
(* C5: a run that reached Done issued exactly one pause mutation, as its   *)
(* last request, after every status read was issued and answered and after *)
(* the loop's last read returned a terminal status, whatever the Start     *)
(* status was.                                                             *)
C5_OnePauseAfterPolling ==
  pc = "done" =>
     /\ Cardinality(PausesSent) = 1
     /\ PausesSent = {Len(sent)}
     /\ \A j \in ReadsSent : j < Len(sent)
     /\ Len(reads) = Cardinality(ReadsSent)
     /\ Len(reads) >= 2
     /\ reads[Len(reads)] \in Statuses \ {"syncing"}
     /\ log[Len(log)].ev = "pause"

C5_Witness ==
  /\ pc = "done"
  /\ reads[1] = "syncing"
  /\ UnpausesSent = {}
  /\ Cardinality(PausesSent) = 1

----------------------------------------------------------------------------
(* C6 (as stated): once a status read of the polling loop has got no      *)
(* response, a response that is not 2xx, or a body without                 *)
(* data.status.sync_state, the run is aborted: no pause mutation has been  *)
(* issued and 'Start your pipeline!' is not printed.                       *)
C6_NonOkPollAborts ==
  \A i \in 2..Len(resps) :
    ReadFailed(resps[i]) =>
      /\ pc = "aborted"
      /\ PausesSent = {}
      /\ \A k \in 1..Len(out) : out[k] # <<"Start your pipeline!">>

(* C6 (amended): once a status read of the polling loop has failed (no     *)
(* response, a 4xx or 5xx response, or a body that is not JSON or has no   *)
(* data.status.sync_state), the run is aborted by an exception: that read  *)
(* is the last, no pause mutation has been issued and 'Start your          *)
(* pipeline!' is not printed.  A response that is neither 2xx nor 4xx/5xx  *)
(* and carries a sync_state is read like a 200.                            *)
C6_PollFailureAborts ==
  \A i \in 2..Len(resps) :
    /\ (~ReadError(resps[i])) => reads[i] = resps[i].body
    /\ ReadError(resps[i]) =>
         /\ pc = "aborted"
         /\ exc.type # "none"
         /\ exc.in = "get_sync_status"
         /\ i = Len(resps)
         /\ PausesSent = {}
         /\ \A k \in 1..Len(out) : out[k] # <<"Start your pipeline!">>

C6_Witness ==
  /\ pc = "aborted"
  /\ Len(resps) = 3
  /\ resps[3].code = 500
  /\ resps[3].body = "rescheduled"
  /\ Cardinality(UnpausesSent) = 1

----------------------------------------------------------------------------
(* C7: a mutation answered with a response that is not 2xx does not make   *)
(* set_connector_paused_status raise, and when it is the pause mutation    *)
(* the run reaches Done.                                                   *)
C7_MutationFailureContinues ==
  \A i \in 1..Len(muts) :
    NonOk(muts[i]) =>
      /\ ~(i = Len(muts) /\ exc.in = "set_connector_paused_status")
      /\ muts[i].paused => pc = "done"

----------------------------------------------------------------------------
(* C8: between an unpause mutation and any status read that follows it the *)
(* settle delay has completed: the read is issued at least 15 seconds      *)
(* after the unpause, and no read is issued while the unpause is           *)
(* outstanding or the delay is running.                                    *)
C8_SettleBeforeFirstPoll ==
  /\ \A i \in Idx("unpause"), j \in Idx("poll") :
       /\ \E k \in Idx("settle") : i < k /\ k < j
       /\ log[j].t - log[i].t >= SettleDelay
  /\ (UnpausesSent # {} /\ pc \in {"unpause_wait", "settle"}) => PollsSent = {}

C8_Witness ==
  /\ pc = "poll_wait"
  /\ EventNames = <<"read", "unpause", "settle", "poll">>
  /\ log[4].t = SettleDelay

----------------------------------------------------------------------------
(* C9: the pause mutation is issued only after a read of the polling loop  *)
(* returned a status other than 'syncing', and at most one request is in   *)
(* flight at any moment, so the pause is never in flight together with a   *)
(* status read.                                                            *)
C9_PauseAfterTerminalOneInFlight ==
  /\ Len(inflight) <= 1
  /\ PausesSent # {} =>
       \E i \in 2..Len(reads) : reads[i] \in Statuses \ {"syncing"}
  /\ \A i \in PausesSent, j \in ReadsSent : j < i
  /\ (\E i \in 1..Len(inflight) : inflight[i].payload = "paused:true") =>
       ~ \E j \in 1..Len(inflight) : inflight[j].method = "GET"

C9_Witness ==
  /\ pc = "pause_wait"
  /\ Len(inflight) = 1
  /\ inflight[1].payload = "paused:true"
  /\ reads = <<"paused", "syncing", "rescheduled">>

----------------------------------------------------------------------------
(* C10 (as stated): construction with a name that is not a key of the      *)
(* mapping fails before any call to an external service: no secret has     *)
(* been fetched and no request sent.                                       *)
C10_FailsBeforeAnyExternalCall ==
  (pc # "new" /\ arg \notin DOMAIN ConnectorIds) =>
     /\ pc = "ctor_failed"
     /\ secretCalls = 0
     /\ sent = << >>

(* C10 (amended): construction with a name that is not a key of the        *)
(* mapping fails with KeyError after the two secrets have been fetched     *)
(* from the secret provider; no request is sent to the control plane and   *)
(* the run is never entered.                                               *)
C10_UnknownNameFailsAtConstruction ==
  (pc # "new" /\ arg \notin DOMAIN ConnectorIds) =>
     /\ pc = "ctor_failed"
     /\ exc = Raised("KeyError", "__init__")
     /\ secretCalls = 2
     /\ sent = << >>
     /\ inflight = << >>
     /\ log = << >>
     /\ reads = << >>

C10_Witness ==
  /\ pc = "ctor_failed"
  /\ arg = "not_a_connector"
  /\ secretCalls = 2
  /\ sent = << >>

----------------------------------------------------------------------------
(* C11: a run in which every status read succeeds and every mutation is   *)
(* answered ends at Done: when the run has stopped by an exception, some   *)
(* status read failed; and the polling loop is left only by a read that is *)
(* not 'syncing' or by a read that failed.                                 *)
C11_ReadsSucceedReachesDone ==
  /\ (pc = "aborted" /\ \A k \in 1..Len(muts) : muts[k].code # 0) =>
        \E i \in 1..Len(resps) : ReadError(resps[i])
  /\ (Len(reads) >= 2 /\ pc \notin {"poll_wait", "sleep"}) =>
        reads[Len(reads)] # "syncing"

----------------------------------------------------------------------------
(* C12 (as stated): a run that found the connector paused at Start and     *)
(* reached Done observed 'syncing' in some poll before the terminal one.   *)
C12_SyncingObservedBeforeDone ==
  (pc = "done" /\ reads[1] = "paused") =>
     \E i \in 2..(Len(reads) - 1) : reads[i] = "syncing"

(* C12 (amended): in a run that found the connector paused at Start and    *)
(* reached Done, the first poll was issued 15 seconds after the unpause    *)
(* and polling ended at the first poll that did not return 'syncing',      *)
(* which may be the first poll: every earlier poll returned 'syncing' and  *)
(* the run slept 15 seconds plus 30 seconds per 'syncing' poll.            *)
C12_PausedStartDone ==
  (pc = "done" /\ reads[1] = "paused") =>
     /\ \A i \in Idx("unpause"), j \in Idx("poll") :
          log[j].t >= log[i].t + SettleDelay
     /\ \A i \in 2..(Len(reads) - 1) : reads[i] = "syncing"
     /\ reads[Len(reads)] \in Statuses \ {"syncing"}
     /\ clock = SettleDelay + (Len(reads) - 2) * PollInterval

C12_Witness ==
  /\ pc = "done"
  /\ reads = <<"paused", "paused">>
  /\ muts[1] = [paused |-> FALSE, code |-> 404]
  /\ clock = SettleDelay

----------------------------------------------------------------------------
(* C13: when the Start status read fails, the run is aborted at once: the  *)
(* Start read is the only request sent, no mutation is issued, no delay is *)
(* incurred and 'Start your pipeline!' is not printed.                     *)
C13_StartReadFailureAborts ==
  (Len(resps) >= 1 /\ ReadError(resps[1])) =>
     /\ pc = "aborted"
     /\ exc.in = "get_sync_status"
     /\ Len(sent) = 1
     /\ UnpausesSent = {} /\ PausesSent = {}
     /\ EventNames = <<"read">>
     /\ clock = 0
     /\ out = << >>

C13_Witness ==
  /\ pc = "aborted"
  /\ Len(resps) = 1
  /\ resps[1] = [code |-> 200, body |-> "nofield"]
  /\ muts = << >>

----------------------------------------------------------------------------
(* C14: get_sync_status never retries: every call sends exactly one GET,   *)
(* so the status requests sent are one for the Start read plus one per     *)
(* iteration of the polling loop, and a failed read is the last request of *)
(* the run.                                                                *)
C14_OneGetPerStatusRead ==
  /\ Cardinality(Idx("read")) <= 1
  /\ Cardinality(ReadsSent) = Cardinality(Idx("read")) + Cardinality(Idx("poll"))
  /\ Len(resps) <= Cardinality(ReadsSent)
  /\ Cardinality(ReadsSent) <= Len(resps) + 1
  /\ \A i \in 1..Len(resps) :
       ReadError(resps[i]) =>
         /\ i = Len(resps)
         /\ Len(sent) = Cardinality(ReadsSent) + Cardinality(UnpausesSent)
         /\ sent[Len(sent)].method = "GET"
         /\ pc = "aborted"

C14_Witness ==
  /\ pc = "aborted"
  /\ Len(resps) = 3
  /\ resps[3] = NetErr
  /\ Cardinality(ReadsSent) = 3
  /\ Cardinality(Idx("poll")) = 2

----------------------------------------------------------------------------
(* C15: a 30 second sleep follows each poll that returned 'syncing' and    *)
(* precedes the next poll, and no sleep follows the terminal poll: a       *)
(* completed run with n reads in the loop has n-1 sleeps, and a paused     *)
(* start with polls [syncing, rescheduled] gives the events                *)
(* [unpause, settle delay, poll, sleep, poll, pause].                      *)
C15_SleepBetweenPolls ==
  /\ \A k \in Idx("sleep") :
       /\ k > 1 /\ log[k - 1].ev = "poll"
       /\ k < Len(log) /\ log[k + 1].ev = "poll"
       /\ log[k].t = log[k - 1].t + PollInterval
  /\ \A k \in Idx("pause") : log[k - 1].ev = "poll"
  /\ Cardinality(Idx("sleep")) =
       Cardinality({i \in 2..Len(reads) : reads[i] = "syncing"})
         - (IF pc = "sleep" THEN 1 ELSE 0)
  /\ pc = "done" => Cardinality(Idx("sleep")) = (Len(reads) - 1) - 1
  /\ (pc = "done" /\ reads = <<"paused", "syncing", "rescheduled">>) =>
       Tail(EventNames) = <<"unpause", "settle", "poll", "sleep", "poll", "pause">>

C15_Witness ==
  /\ pc = "done"
  /\ reads = <<"paused", "syncing", "rescheduled">>
  /\ Tail(EventNames) = <<"unpause", "settle", "poll", "sleep", "poll", "pause">>
  /\ clock = SettleDelay + PollInterval

----------------------------------------------------------------------------
(* C16: after construction no step changes the fields of the client (base  *)
(* URL, key, secret, connector id), and every request of the run goes to   *)
(* that base URL and connector id with the credentials of those fields.    *)
C16_LocalStateFixed ==
  /\ [][pc # "new" => self' = self]_vars
  /\ [](pc \notin {"new", "ctor_failed"} =>
          /\ self.URL = URL
          /\ self.CONNECTOR_NAME = ConnectorIds[arg]
          /\ \A i \in 1..Len(sent) :
               /\ sent[i].base = self.URL
               /\ sent[i].id = self.CONNECTOR_NAME
               /\ sent[i].auth =
                    <<"Basic">> \o BasicToken(self.API_KEY, self.API_SECRET))

C16_Witness ==
  /\ pc = "done"
  /\ self = [URL |-> URL, API_KEY |-> <<"a">>, API_SECRET |-> <<"a", ":">>,
             CONNECTOR_NAME |-> "embarkation_cropped"]
  /\ Len(sent) = 4
  /\ \A i \in 1..Len(sent) : sent[i].id = "embarkation_cropped"

----------------------------------------------------------------------------
(* C17: a run issues at most two mutations, an unpause before a pause when *)
(* both occur; the pause is the last request of a completed run; and Done  *)
(* is terminal: no step is taken from it.                                  *)
C17_TwoMutationsDoneTerminal ==
  /\ [](/\ Cardinality(UnpausesSent) <= 1
        /\ Cardinality(PausesSent) <= 1
        /\ Cardinality({i \in 1..Len(sent) : sent[i].method = "PATCH"}) <= 2
        /\ \A i \in UnpausesSent, j \in PausesSent : i < j
        /\ pc = "done" => sent[Len(sent)].payload = "paused:true")
  /\ [][pc # "done"]_vars

C17_Witness ==
  /\ pc = "done"
  /\ Len(muts) = 2
  /\ UnpausesSent = {2}
  /\ PausesSent = {Len(sent)}

----------------------------------------------------------------------------
(* Vocabulary of the properties of get_auth_header *)

\* the header get_auth_header returns for key k and secret s
HeaderOf(k, s) ==
  get_auth_header([self EXCEPT !.API_KEY = k, !.API_SECRET = s])

\* the string that is encoded: "<key>:<secret>"
Joined(k, s) == k \o <<":">> \o s

HasColon(str) == \E i \in 1..Len(str) : str[i] = ":"

----------------------------------------------------------------------------
(* C18 (as stated): the header determines the (key, secret) pair: no other *)
(* pair gives the header that get_auth_header returned.                    *)
C18_HeaderDeterminesPair ==
  pc = "auth_returned" =>
    \A k \in AuthStrings, s \in AuthStrings :
      HeaderOf(k, s) = auth_header =>
        (k = self.API_KEY /\ s = self.API_SECRET)

(* C18 (amended): the header is a function of the pair, reversible up to   *)
(* the joined string "<key>:<secret>": two pairs give the same header      *)
(* exactly when their joined strings are equal, so the pair is determined  *)
(* by the header among the pairs whose key has no ':'.                     *)
C18_HeaderDeterminesJoined ==
  pc = "auth_returned" =>
    /\ auth_header.Authorization[1] = "Basic"
    /\ Len(auth_header.Authorization) =
         1 + 4 * ((Len(Joined(self.API_KEY, self.API_SECRET)) + 2) \div 3)
    /\ \A k \in AuthStrings, s \in AuthStrings :
         /\ (HeaderOf(k, s) = auth_header) <=>
              (Joined(k, s) = Joined(self.API_KEY, self.API_SECRET))
         /\ (/\ HeaderOf(k, s) = auth_header
             /\ ~HasColon(k)
             /\ ~HasColon(self.API_KEY)) =>
              (k = self.API_KEY /\ s = self.API_SECRET)

C18_Witness ==
  /\ pc = "auth_returned"
  /\ self.API_KEY = <<"a", ":">>
  /\ self.API_SECRET = <<"b">>
  /\ auth_header = HeaderOf(<<"a">>, <<":", "b">>)
  /\ auth_header.Authorization = <<"Basic", "Y", "T", "o", "6", "Y", "g", "=", "=">>

====
